---- MODULE Spec2Model ----
(***************************************************************************)
(* A model of the den-labs/trust-sdk client: the request dispatcher        *)
(* (DenScope.request / handleResponse in src/src/client.ts) and the x402   *)
(* payment adapter (decodePaymentRequired, parseChainId, randomNonce,      *)
(* buildPaymentHeader in src/unnamed/part_000).                            *)
(*                                                                         *)
(* Text is modelled as sequences of one-character strings where the code   *)
(* parses it (network, amount, nonce), as sequences of code points where   *)
(* its character range matters (btoa), and as TLA+ strings (plain ASCII)   *)
(* elsewhere.                                                              *)
(***************************************************************************)
EXTENDS Integers, Sequences, FiniteSets, TLC

\* ------------------------------------------------------------------ bounds
\* Number of logical calls that may be in flight on one client (SpecConc).
NumCalls == 2
\* Number of times the wall clock is observed to advance.
MaxTicks == 2

Calls == 1..NumCalls

\* ------------------------------------------------------- program constants
SIGNATURE_VALIDITY_SECONDS == 3600
NONCE_BYTES == 32
X402_VERSION == 2
PAYMENT_REQUIRED_STATUS == 402
LATIN1_MAX == 255
DEFAULT_BASE_URL == <<"https://denscope.vercel.app">>
API_PREFIX == "/api/v1"
EIP3009_TYPES ==
  [TransferWithAuthorization |->
     << <<"from", "address">>, <<"to", "address">>, <<"value", "uint256">>,
        <<"validAfter", "uint256">>, <<"validBefore", "uint256">>,
        <<"nonce", "bytes32">> >>]

\* ------------------------------------------------------------ JS values
\* A JSON scalar as JavaScript sees it after JSON.parse.
JStr(chars) == [t |-> "string", s |-> chars, n |-> 0]
JNum(k) == [t |-> "number", s |-> <<>>, n |-> k]
JUndefined == [t |-> "undefined", s |-> <<>>, n |-> 0]

\* A JavaScript number that may be NaN.
Num(k) == [nan |-> FALSE, v |-> k]
NaN == [nan |-> TRUE, v |-> 0]

\* Body carried by an error or returned to the caller.
BodyUndefined == [t |-> "undefined", v |-> "", ch |-> [none |-> TRUE]]
BodyJson(v) == [t |-> "json", v |-> v, ch |-> [none |-> TRUE]]
BodyText(v) == [t |-> "text", v |-> v, ch |-> [none |-> TRUE]]
BodyChallenge(ch) == [t |-> "challenge", v |-> "", ch |-> ch]

\* Error objects: the three classes of errors.ts and the foreign errors that
\* pass through the client (status 0 stands for "no status field").
Msg(text, arg) == [text |-> text, arg |-> arg]
DenScopeError(message, status, body) ==
  [name |-> "DenScopeError", message |-> message, status |-> status, body |-> body]
PaymentRequiredError(message, body) ==
  [DenScopeError(message, PAYMENT_REQUIRED_STATUS, body) EXCEPT !.name = "PaymentRequiredError"]
AuthenticationError(message, status, body) ==
  [DenScopeError(message, status, body) EXCEPT !.name = "AuthenticationError"]
ForeignError(name, text) ==
  [name |-> name, message |-> Msg(text, <<>>), status |-> 0, body |-> BodyUndefined]

\* ------------------------------------------------------------ characters
DecDigits == <<"0", "1", "2", "3", "4", "5", "6", "7", "8", "9">>
HexDigits == DecDigits \o <<"a", "b", "c", "d", "e", "f">>
IsDigit(ch) == \E i \in 1..Len(DecDigits) : DecDigits[i] = ch
IsHexDigit(ch) == \E i \in 1..Len(HexDigits) : HexDigits[i] = ch
DigitValue(ch) == (CHOOSE i \in 1..Len(HexDigits) : HexDigits[i] = ch) - 1

RECURSIVE DigitsValue(_, _)
\* Value of a numeral (most significant digit first) in the given radix.
DigitsValue(s, radix) ==
  IF s = <<>> THEN 0
  ELSE DigitsValue(SubSeq(s, 1, Len(s) - 1), radix) * radix + DigitValue(s[Len(s)])

RECURSIVE DigitPrefixLen(_)
\* Length of the longest prefix of s made of decimal digits.
DigitPrefixLen(s) ==
  IF s = <<>> \/ ~IsDigit(s[1]) THEN 0 ELSE 1 + DigitPrefixLen(Tail(s))

RECURSIVE ToDec(_)
\* String(n) for a non-negative integer n.
ToDec(n) == IF n < 10 THEN <<DecDigits[n + 1]>> ELSE ToDec(n \div 10) \o <<DecDigits[(n % 10) + 1]>>

\* b.toString(16).padStart(2, '0') for a byte b.
ByteToHex(b) ==
  LET digits == IF b < 16 THEN <<HexDigits[b + 1]>>
                ELSE <<HexDigits[(b \div 16) + 1], HexDigits[(b % 16) + 1]>>
  IN IF Len(digits) < 2 THEN <<"0">> \o digits ELSE digits

RECURSIVE Join(_)
\* Array.prototype.join('') over an array of character sequences.
Join(parts) == IF parts = <<>> THEN <<>> ELSE Head(parts) \o Join(Tail(parts))

RECURSIVE Split(_, _)
\* String.prototype.split(sep) for a one-character separator.
Split(s, sep) ==
  IF \A i \in 1..Len(s) : s[i] # sep THEN <<s>>
  ELSE LET k == CHOOSE i \in 1..Len(s) : s[i] = sep /\ \A j \in 1..(i - 1) : s[j] # sep
       IN <<SubSeq(s, 1, k - 1)>> \o Split(SubSeq(s, k + 1, Len(s)), sep)

\* parseInt(s, 10): optional sign, then the longest run of decimal digits; NaN
\* when there is none. What follows the digits is ignored.
parseInt(s) ==
  LET signed == Len(s) > 0 /\ s[1] \in {"+", "-"}
      rest == IF signed THEN Tail(s) ELSE s
      k == DigitPrefixLen(rest)
      magnitude == DigitsValue(SubSeq(rest, 1, k), 10)
  IN IF k = 0 THEN NaN
     ELSE Num(IF signed /\ s[1] = "-" THEN -magnitude ELSE magnitude)

\* BigInt(v): [ok, v]. A string is a StringNumericLiteral: empty is 0n, an
\* optionally signed decimal numeral, or a 0x hexadecimal numeral; anything
\* else is a SyntaxError. A number converts as is; undefined is a TypeError.
BigInt(v) ==
  IF v.t = "number" THEN [ok |-> TRUE, v |-> v.n, error |-> "none"]
  ELSE IF v.t = "undefined" THEN [ok |-> FALSE, v |-> 0, error |-> "TypeError"]
  ELSE LET s == v.s
           signed == Len(s) > 0 /\ s[1] \in {"+", "-"}
           rest == IF signed THEN Tail(s) ELSE s
           hex == Len(s) > 2 /\ s[1] = "0" /\ s[2] = "x"
                    /\ \A i \in 3..Len(s) : IsHexDigit(s[i])
           dec == Len(rest) > 0 /\ DigitPrefixLen(rest) = Len(rest)
           magnitude == DigitsValue(rest, 10)
       IN IF s = <<>> THEN [ok |-> TRUE, v |-> 0, error |-> "none"]
          ELSE IF hex THEN [ok |-> TRUE, v |-> DigitsValue(SubSeq(s, 3, Len(s)), 16), error |-> "none"]
          ELSE IF dec THEN [ok |-> TRUE,
                            v |-> IF signed /\ s[1] = "-" THEN -magnitude ELSE magnitude,
                            error |-> "none"]
          ELSE [ok |-> FALSE, v |-> 0, error |-> "SyntaxError"]

\* ------------------------------------------------- base64 and JSON text
\* A JSON text is modelled by the document it denotes; every string of the
\* document whose character range matters (resource.description) is kept as
\* its units on the wire: a raw character (esc = FALSE) or a \uXXXX escape.
NoDoc == [none |-> TRUE]
NotJsonText == [json |-> FALSE, doc |-> NoDoc]
JsonText(doc) == [json |-> TRUE, doc |-> doc]

\* Values of the payment-required response header (headers.get gives null
\* when the header is absent).
HeaderNull == [present |-> FALSE, empty |-> FALSE, base64 |-> FALSE, text |-> NotJsonText]
HeaderEmpty == [present |-> TRUE, empty |-> TRUE, base64 |-> TRUE, text |-> NotJsonText]
HeaderNotBase64 == [present |-> TRUE, empty |-> FALSE, base64 |-> FALSE, text |-> NotJsonText]
Base64(text) == [present |-> TRUE, empty |-> FALSE, base64 |-> TRUE, text |-> text]

\* atob(header): the binary string, or an InvalidCharacterError.
atob(header) == [ok |-> header.base64, text |-> header.text]

\* Characters of a JSON string after JSON.parse: a raw unit is the character
\* it is, an escape is the code point it names.
ParseUnits(units) == [i \in 1..Len(units) |-> units[i].cp]
\* Units written by JSON.stringify: every character raw, none escaped.
StringifyChars(chars) == [i \in 1..Len(chars) |-> [esc |-> FALSE, cp |-> chars[i]]]

\* JSON.parse(text): the value, or a SyntaxError.
JSONparse(text) ==
  [ok |-> text.json,
   value |-> IF text.json
             THEN [text.doc EXCEPT !.resource.description = ParseUnits(@)]
             ELSE NoDoc]

\* JSON.stringify(payload) for the X-PAYMENT envelope.
JSONstringify(payload) ==
  JsonText([payload EXCEPT !.resource.description = StringifyChars(@)])

\* btoa(text): base64 of a binary string; an InvalidCharacterError when a
\* character of the text lies outside Latin1.
btoa(text) ==
  LET units == text.doc.resource.description
  IN IF \E i \in 1..Len(units) : units[i].cp > LATIN1_MAX
     THEN [ok |-> FALSE, header |-> HeaderNull]
     ELSE [ok |-> TRUE, header |-> Base64(text)]

\* ------------------------------------------------------------------ x402
NoError == [name |-> "none", message |-> Msg("", <<>>), status |-> 0, body |-> BodyUndefined]

\* decodePaymentRequired(response): [ok, value, error].
decodePaymentRequired(response) ==
  LET header == response.paymentRequired
      bin == atob(header)
      parsed == JSONparse(bin.text)
  IN IF ~header.present \/ header.empty
     THEN [ok |-> FALSE, value |-> NoDoc,
           error |-> PaymentRequiredError(
                       Msg("402 response missing PAYMENT-REQUIRED header", <<>>), BodyUndefined)]
     ELSE IF ~bin.ok \/ ~parsed.ok
     THEN [ok |-> FALSE, value |-> NoDoc,
           error |-> PaymentRequiredError(
                       Msg("Failed to decode PAYMENT-REQUIRED header", <<>>), BodyUndefined)]
     ELSE [ok |-> TRUE, value |-> parsed.value, error |-> NoError]

\* randomNonce without padStart: a byte below 16 gives one digit.
randomNonceUnpadded(bytes) ==
  <<"0", "x">> \o Join([i \in 1..Len(bytes) |->
                         IF bytes[i] < 16 THEN <<HexDigits[bytes[i] + 1]>>
                         ELSE ByteToHex(bytes[i])])

\* randomNonce(), given the bytes crypto.getRandomValues wrote.
randomNonce(bytes) ==
  <<"0", "x">> \o Join([i \in 1..Len(bytes) |-> ByteToHex(bytes[i])])

\* parseChainId that splits and parses but accepts any namespace.
parseChainIdAnyNamespace(network) ==
  LET parts == Split(network.s, ":")
  IN IF Len(parts) # 2
     THEN [ok |-> FALSE, chainId |-> NaN,
           error |-> PaymentRequiredError(
                       Msg("Unsupported network format: ", network.s), BodyUndefined)]
     ELSE [ok |-> TRUE, chainId |-> parseInt(parts[2]), error |-> NoError]

\* parseChainId(network): [ok, chainId, error].
parseChainId(network) ==
  IF network.t # "string"
  THEN [ok |-> FALSE, chainId |-> NaN, error |-> ForeignError("TypeError", "network.split")]
  ELSE LET parts == Split(network.s, ":")
       IN IF Len(parts) # 2 \/ parts[1] # <<"e", "i", "p", "1", "5", "5">>
          THEN [ok |-> FALSE, chainId |-> NaN,
                error |-> PaymentRequiredError(
                            Msg("Unsupported network format: ", network.s), BodyUndefined)]
          ELSE [ok |-> TRUE, chainId |-> parseInt(parts[2]), error |-> NoError]

NoSignArgs == [none |-> TRUE]
NoLocals ==
  [drawn |-> FALSE, nowMs |-> 0, now |-> 0, validBefore |-> 0, nonce |-> <<>>,
   signArgs |-> NoSignArgs, requirement |-> NoDoc, resource |-> NoDoc]

\* accepts[0] of an empty array.
UndefinedRequirement == [undefined |-> TRUE]
IsUndefined(v) == "undefined" \in DOMAIN v

\* A domain fixed to one token on one chain.
signingDomainHardcoded(requirement, chainId) ==
  [name |-> "USD Coin", version |-> "2", chainId |-> Num(42220),
   verifyingContract |-> "0xcebA9300f2b948710d2653dD7B07f33A8B32118C"]

\* The EIP-712 domain, taken from the requirement.
signingDomain(requirement, chainId) ==
  [name |-> requirement.extra.name,
   version |-> requirement.extra.version,
   chainId |-> chainId,
   verifyingContract |-> requirement.asset]

\* Math.floor(Date.now() / 1000)
unixSeconds(nowMs) == nowMs \div 1000

\* validBefore without the validity window.
validBeforeAtNoWindow(now) == now

\* validBefore = now + SIGNATURE_VALIDITY_SECONDS
validBeforeAt(now) == now + SIGNATURE_VALIDITY_SECONDS

\* buildPaymentHeader up to the call of config.account.signTypedData:
\* [ok, error, locals]. bytes is what crypto.getRandomValues returns and nowMs
\* what Date.now() returns, were they to be called. Reading a property of an
\* undefined requirement is a TypeError.
buildPaymentHeaderSign(cfg, requirement, resource, bytes, nowMs) ==
  LET chain == parseChainId(requirement.network)
      domain == signingDomain(requirement, chain.chainId)
      nonce == randomNonce(bytes)
      now == unixSeconds(nowMs)
      validBefore == validBeforeAt(now)
      value == BigInt(requirement.amount)
      message == [from |-> cfg.account.address,
                  to |-> requirement.payTo,
                  value |-> value.v,
                  validAfter |-> 0,
                  validBefore |-> validBefore,
                  nonce |-> nonce]
      locals == [drawn |-> TRUE, nowMs |-> nowMs, now |-> now, validBefore |-> validBefore,
                 nonce |-> nonce, signArgs |-> NoSignArgs,
                 requirement |-> requirement, resource |-> resource]
  IN IF IsUndefined(requirement)
     THEN [ok |-> FALSE, error |-> ForeignError("TypeError", "requirement.network"),
           locals |-> NoLocals]
     ELSE IF ~chain.ok THEN [ok |-> FALSE, error |-> chain.error, locals |-> NoLocals]
     ELSE IF ~value.ok
     THEN [ok |-> FALSE, error |-> ForeignError(value.error, "BigInt"), locals |-> locals]
     ELSE [ok |-> TRUE, error |-> NoError,
           locals |-> [locals EXCEPT !.signArgs =
                         [domain |-> domain,
                          types |-> EIP3009_TYPES,
                          primaryType |-> "TransferWithAuthorization",
                          message |-> message]]]

\* The authorization of the envelope with validBefore left a number.
wireAuthorizationNumeric(cfg, locals) ==
  [from |-> cfg.account.address,
   to |-> locals.requirement.payTo,
   value |-> locals.requirement.amount,
   validAfter |-> JStr(<<"0">>),
   validBefore |-> JNum(locals.validBefore),
   nonce |-> locals.nonce]

\* payload.authorization of the envelope: value is requirement.amount as it
\* came, validAfter the literal '0', validBefore String(validBefore).
wireAuthorization(cfg, locals) ==
  [from |-> cfg.account.address,
   to |-> locals.requirement.payTo,
   value |-> locals.requirement.amount,
   validAfter |-> JStr(<<"0">>),
   validBefore |-> JStr(ToDec(locals.validBefore)),
   nonce |-> locals.nonce]

\* The envelope stamped with protocol version 1.
envelopeVersionOne(cfg, locals, signature) ==
  [x402Version |-> 1,
   resource |-> locals.resource,
   accepted |-> locals.requirement,
   payload |-> [signature |-> signature, authorization |-> wireAuthorization(cfg, locals)]]

\* The x402 v2 payload object: resource and accepted are the arguments.
envelope(cfg, locals, signature) ==
  [x402Version |-> X402_VERSION,
   resource |-> locals.resource,
   accepted |-> locals.requirement,
   payload |-> [signature |-> signature, authorization |-> wireAuthorization(cfg, locals)]]

\* buildPaymentHeader from the signature on: [ok, header, payload].
buildPaymentHeaderEncode(cfg, locals, signature) ==
  LET payload == envelope(cfg, locals, signature)
      encoded == btoa(JSONstringify(payload))
  IN [ok |-> encoded.ok, header |-> encoded.header, payload |-> payload]

\* ---------------------------------------------------------------- inputs
Chars_eip155_42220 == <<"e", "i", "p", "1", "5", "5", ":", "4", "2", "2", "2", "0">>
Chars_eip155_8453 == <<"e", "i", "p", "1", "5", "5", ":", "8", "4", "5", "3">>
Chars_solana_mainnet ==
  <<"s", "o", "l", "a", "n", "a", ":", "m", "a", "i", "n", "n", "e", "t">>

ReqCelo ==
  [scheme |-> "exact", network |-> JStr(Chars_eip155_42220),
   amount |-> JStr(<<"1", "0", "0", "0">>),
   asset |-> "0xcebA9300f2b948710d2653dD7B07f33A8B32118C", payTo |-> "0xPayTo",
   maxTimeoutSeconds |-> 30,
   extra |-> [assetTransferMethod |-> "eip3009", name |-> "USD Coin", version |-> "2"]]
ReqBase ==
  [scheme |-> "exact", network |-> JStr(Chars_eip155_8453),
   amount |-> JStr(<<"2", "5", "0">>),
   asset |-> "0xBaseUSDC", payTo |-> "0xOtherPayee",
   maxTimeoutSeconds |-> 60,
   extra |-> [assetTransferMethod |-> "eip3009", name |-> "USDC", version |-> "1"]]
ReqSolana == [ReqCelo EXCEPT !.network = JStr(Chars_solana_mainnet)]
ReqNoColon == [ReqCelo EXCEPT !.network = JStr(<<"e", "i", "p", "1", "5", "5">>)]
ReqThreeParts ==
  [ReqCelo EXCEPT !.network = JStr(<<"e", "i", "p", "1", "5", "5", ":", "1", ":", "2">>)]
ReqBadAmount == [ReqCelo EXCEPT !.amount = JStr(<<"1", "e", "3">>)]
ReqHexAmount == [ReqCelo EXCEPT !.amount = JStr(<<"0", "x", "1", "0">>)]
ReqEmptyAmount == [ReqCelo EXCEPT !.amount = JStr(<<>>)]
ReqSuffixAbc ==
  [ReqCelo EXCEPT !.network = JStr(<<"e", "i", "p", "1", "5", "5", ":", "a", "b", "c">>)]
ReqSuffix1x ==
  [ReqCelo EXCEPT !.network = JStr(<<"e", "i", "p", "1", "5", "5", ":", "1", "x">>)]
ReqSuffixEmpty == [ReqCelo EXCEPT !.network = JStr(<<"e", "i", "p", "1", "5", "5", ":">>)]

\* The bytes of a code point in UTF-8, up to three of them.
Utf8(cp) ==
  IF cp < 128 THEN <<cp>>
  ELSE IF cp < 2048 THEN <<192 + (cp \div 64), 128 + (cp % 64)>>
  ELSE <<224 + (cp \div 4096), 128 + ((cp \div 64) % 64), 128 + (cp % 64)>>
\* A JSON string written raw in a UTF-8 text: after base64 decoding, one unit
\* for each byte.
Utf8Units(chars) ==
  Join([i \in 1..Len(chars) |->
          [j \in 1..Len(Utf8(chars[i])) |-> [esc |-> FALSE, cp |-> Utf8(chars[i])[j]]]])
\* A JSON string written with every non-ASCII character as a \uXXXX escape.
EscapedUnits(chars) == [i \in 1..Len(chars) |-> [esc |-> chars[i] > 127, cp |-> chars[i]]]

\* Descriptions: "ok", an e with acute accent (U+00E9), a check mark (U+2713).
DescOk == <<111, 107>>
DescEAcute == <<233>>
DescCheckMark == <<10003>>

\* "ok" written raw, and a check mark written as the escape \u2713.
UnitsAscii == <<[esc |-> FALSE, cp |-> 111], [esc |-> FALSE, cp |-> 107]>>
UnitsEscapedCheckMark == <<[esc |-> TRUE, cp |-> 10003]>>

ResourceDoc(units) ==
  [url |-> "https://denscope.vercel.app/api/v1/agent/42220/5/score",
   description |-> units, mimeType |-> "application/json"]
\* The JSON document of a challenge, as the server wrote it.
ChallengeDoc(accepts, units) ==
  [x402Version |-> 2, accepts |-> accepts, resource |-> ResourceDoc(units),
   error |-> "missing payment header"]

ChOne == ChallengeDoc(<<ReqCelo>>, UnitsAscii)
ChTwo == ChallengeDoc(<<ReqBase, ReqCelo>>, UnitsAscii)
ChEmpty == ChallengeDoc(<<>>, UnitsAscii)
ChSolana == ChallengeDoc(<<ReqSolana>>, UnitsAscii)
ChNoColon == ChallengeDoc(<<ReqNoColon>>, UnitsAscii)
ChThreeParts == ChallengeDoc(<<ReqThreeParts>>, UnitsAscii)
ChBadAmount == ChallengeDoc(<<ReqBadAmount>>, UnitsAscii)
ChCheckMark == ChallengeDoc(<<ReqCelo>>, UnitsEscapedCheckMark)
ChEAcuteEscaped == ChallengeDoc(<<ReqCelo>>, EscapedUnits(DescEAcute))
ChEAcuteUtf8 == ChallengeDoc(<<ReqCelo>>, Utf8Units(DescEAcute))
ChSolanaFirst == ChallengeDoc(<<ReqSolana, ReqCelo>>, UnitsAscii)
ChCeloFirst == ChallengeDoc(<<ReqCelo, ReqSolana, ReqBase>>, UnitsAscii)
ChHexAmount == ChallengeDoc(<<ReqHexAmount>>, UnitsAscii)
ChEmptyAmount == ChallengeDoc(<<ReqEmptyAmount>>, UnitsAscii)
ChSuffixAbc == ChallengeDoc(<<ReqSuffixAbc>>, UnitsAscii)
ChSuffix1x == ChallengeDoc(<<ReqSuffix1x>>, UnitsAscii)
ChSuffixEmpty == ChallengeDoc(<<ReqSuffixEmpty>>, UnitsAscii)
\* A challenge of protocol version 1.
ChVersionOne == [ChOne EXCEPT !.x402Version = 1]

ChallengeDocs ==
  {ChOne, ChTwo, ChEmpty, ChSolana, ChNoColon, ChThreeParts, ChBadAmount, ChCheckMark,
   ChEAcuteEscaped, ChEAcuteUtf8, ChSolanaFirst, ChCeloFirst}
PaymentRequiredHeaders ==
  {HeaderNull, HeaderEmpty, HeaderNotBase64, Base64(NotJsonText)}
    \cup {Base64(JsonText(d)) : d \in ChallengeDocs}

\* What response.json() and response.text() do, the second called after the
\* first has rejected: resolve (with v) or reject; raw is the body as sent.
BodyJsonOk == [json |-> TRUE, text |-> TRUE, v |-> "{json}", raw |-> "{json}"]
\* A response object whose text() does not depend on json() having run.
BodyTextOnly == [json |-> FALSE, text |-> TRUE, v |-> "raw text", raw |-> "raw text"]
\* No body could be read at all.
BodyUnreadable == [json |-> FALSE, text |-> FALSE, v |-> "", raw |-> ""]
\* A Response of fetch with a body that is not JSON: json() reads the body to
\* its end and rejects; the body is then used up and text() rejects as well.
BodyConsumed == [json |-> FALSE, text |-> FALSE, v |-> "", raw |-> "Internal Server Error"]
ResponseBodies == {BodyJsonOk, BodyTextOnly, BodyUnreadable, BodyConsumed}

Statuses == {200, 401, 402, 403, 404, 500}
Response(status, header, body) == [status |-> status, paymentRequired |-> header, body |-> body]
PlainResponses == {Response(s, HeaderNull, b) : s \in Statuses, b \in ResponseBodies}
FirstResponses ==
  PlainResponses \cup {Response(402, h, BodyJsonOk) : h \in PaymentRequiredHeaders}
RetryResponses == PlainResponses \cup {Response(402, Base64(JsonText(ChOne)), BodyJsonOk)}

\* Outcomes of crypto.getRandomValues on a 32-byte array.
BytesZero == [i \in 1..NONCE_BYTES |-> 0]
BytesRamp == [i \in 1..NONCE_BYTES |-> (i * 37) % 256]
RandomOutcomes == {BytesZero, BytesRamp}

Signatures == {"0xsig"}
SignerErrors ==
  {ForeignError("UserRejectedRequestError", "User rejected the request"),
   ForeignError("TransportError", "Ledger device: disconnected")}
TransportErrors == {ForeignError("TypeError", "fetch failed")}

\* Steps by which the clock is seen to advance, in milliseconds.
TickStepsMs == {500, 3600000}

\* Configurations the constructor accepts: an API key, an account, or an
\* object that has both keys; baseUrl left out or given with a trailing slash.
ACCOUNT_ADDRESS == "0x1234567890abcdef1234567890abcdef12345678"
Config(hasKey, hasAccount, hasBase) ==
  [apiKey |-> [has |-> hasKey, v |-> "ds_test123"],
   account |-> [has |-> hasAccount, address |-> ACCOUNT_ADDRESS],
   baseUrl |-> [has |-> hasBase, v |-> <<"https://custom.example.com", "/">>]]
Configs ==
  {Config(k, a, b) : k \in BOOLEAN, a \in BOOLEAN, b \in BOOLEAN} \ {Config(FALSE, FALSE, b) : b \in BOOLEAN}

\* ---------------------------------------------------------------- client
isApiKeyConfig(cfg) == cfg.apiKey.has
isX402Config(cfg) == cfg.account.has

RECURSIVE Concat(_)
Concat(tokens) == IF tokens = <<>> THEN "" ELSE Head(tokens) \o Concat(Tail(tokens))

\* constructor: (config.baseUrl ?? DEFAULT_BASE_URL).replace(/\/$/, '').
\* A URL is a sequence of tokens of which a "/" token is a single slash.
constructorBaseUrl(cfg) ==
  LET given == IF cfg.baseUrl.has THEN cfg.baseUrl.v ELSE DEFAULT_BASE_URL
  IN Concat(IF Len(given) > 0 /\ given[Len(given)] = "/"
            THEN SubSeq(given, 1, Len(given) - 1) ELSE given)

RECURSIVE ParamsToString(_)
\* URLSearchParams.toString() for names and values that need no escaping.
ParamsToString(params) ==
  IF params = <<>> THEN ""
  ELSE params[1][1] \o "=" \o params[1][2]
         \o (IF Len(params) > 1 THEN "&" ELSE "") \o ParamsToString(Tail(params))
WithQuery(path, params) ==
  LET qs == ParamsToString(params) IN IF qs # "" THEN path \o "?" \o qs ELSE path
Param(cond, name, value) == IF cond THEN << <<name, value>> >> ELSE <<>>

\* An optional number: unset (null or undefined) or a value.
Unset == [set |-> FALSE, v |-> 0]
Given(v) == [set |-> TRUE, v |-> v]

getAgentPath(chainId, agentId) == "/agent/" \o ToString(chainId) \o "/" \o ToString(agentId)
getScorePath(chainId, agentId) == getAgentPath(chainId, agentId) \o "/score"
getSignalsPath(chainId, agentId, options) ==
  WithQuery(getAgentPath(chainId, agentId) \o "/signals",
            Param(options.status # "", "status", options.status))
getEventsPath(chainId, agentId, options) ==
  WithQuery(getAgentPath(chainId, agentId) \o "/events",
            Param(options.limit.set, "limit", ToString(options.limit.v))
              \o Param(options.offset.set, "offset", ToString(options.offset.v))
              \o Param(options.kind # "", "kind", options.kind))
searchPath(options) ==
  WithQuery("/search",
            Param(options.q # "", "q", options.q)
              \o Param(options.chainId.set, "chainId", ToString(options.chainId.v))
              \o Param(options.limit.set, "limit", ToString(options.limit.v)))

ChainIds == {42220}
AgentIds == {5}
SignalsOptionsSet == {[status |-> ""], [status |-> "open"]}
EventsOptionsSet ==
  {[limit |-> Unset, offset |-> Unset, kind |-> ""],
   [limit |-> Given(10), offset |-> Given(0), kind |-> "feedback"]}
SearchOptionsSet ==
  {[q |-> "", chainId |-> Unset, limit |-> Unset],
   [q |-> "den", chainId |-> Given(42220), limit |-> Unset]}

\* response.ok
ResponseOk(response) == response.status \in 200..299

NoResult == [state |-> "pending", value |-> BodyUndefined, error |-> NoError]
Returned(value) == [state |-> "returned", value |-> value, error |-> NoError]
Threw(error) == [state |-> "threw", value |-> BodyUndefined, error |-> error]

\* handleResponse(response): what the call returns or throws.
handleResponse(response) ==
  LET body == IF response.body.json THEN BodyJson(response.body.v)
              ELSE IF response.body.text THEN BodyText(response.body.v)
              ELSE BodyUndefined
  IN IF ResponseOk(response)
     THEN IF response.body.json THEN Returned(BodyJson(response.body.v))
          ELSE Threw(ForeignError("SyntaxError", "response.json"))
     ELSE IF response.status = 401 \/ response.status = 403
     THEN Threw(AuthenticationError(Msg("Authentication failed: ", ToDec(response.status)),
                                    response.status, body))
     ELSE IF response.status = 402
     THEN Threw(PaymentRequiredError(Msg("Payment required", <<>>), body))
     ELSE Threw(DenScopeError(Msg("API error: ", ToDec(response.status)), response.status, body))

\* ----------------------------------------------------------------- state
VARIABLES
  config,     \* this.config, read-only after construction
  baseUrl,    \* this.baseUrl
  clockMs,    \* what Date.now() returns
  ticks,      \* how often the clock has advanced
  pc,         \* per call: Initial, Sent, AwaitingPayment, PaidRetry, Done
  op,         \* per call: the public method that was called
  url,        \* per call: the local url of request()
  fetchLog,   \* per call: the fetch(url, {headers}) calls made, in order
  received,   \* per call: the responses fetch resolved with, in order
  fetchErrors, \* per call: the errors fetch rejected with, in order
  decodes,    \* per call: number of decodePaymentRequired invocations
  challenge,  \* per call: the local paymentRequired of request()
  rng,        \* per call: the byte arrays crypto.getRandomValues filled
  locals,     \* per call: the locals of buildPaymentHeader
  signLog,    \* per call: the signTypedData invocations, in order
  result      \* per call: what the promise settled with

vars == <<config, baseUrl, clockMs, ticks, pc, op, url, fetchLog, received, fetchErrors,
          decodes, challenge, rng, locals, signLog, result>>

\* The call that Spec follows; SpecConc runs every call of Calls.
Main == CHOOSE c \in Calls : \A d \in Calls : c <= d

Headers(names, value) == [n \in names |-> value]
Fetch(u, headers) == [url |-> u, headers |-> headers, atMs |-> clockMs]

InitWith(cfgs) ==
  /\ config \in cfgs
  /\ baseUrl = constructorBaseUrl(config)
  /\ clockMs = 0
  /\ ticks = 0
  /\ pc = [c \in Calls |-> "Initial"]
  /\ op = [c \in Calls |-> "none"]
  /\ url = [c \in Calls |-> ""]
  /\ fetchLog = [c \in Calls |-> <<>>]
  /\ received = [c \in Calls |-> <<>>]
  /\ fetchErrors = [c \in Calls |-> <<>>]
  /\ decodes = [c \in Calls |-> 0]
  /\ challenge = [c \in Calls |-> NoDoc]
  /\ rng = [c \in Calls |-> <<>>]
  /\ locals = [c \in Calls |-> NoLocals]
  /\ signLog = [c \in Calls |-> <<>>]
  /\ result = [c \in Calls |-> NoResult]

Init == InitWith(Configs)

\* Headers of the initial request.
requestHeaders(cfg) ==
  IF isApiKeyConfig(cfg)
  THEN Headers({"Authorization"}, "Bearer " \o cfg.apiKey.v)
  ELSE Headers({}, "")

\* The retry sent with the first request's headers object, X-PAYMENT added.
retryHeadersMerged(headers, paymentHeader) ==
  [n \in (DOMAIN headers) \cup {"X-PAYMENT"} |->
     IF n = "X-PAYMENT" THEN paymentHeader ELSE headers[n]]

\* Headers of the paid retry: a new object, whatever the first headers were.
retryHeaders(headers, paymentHeader) == Headers({"X-PAYMENT"}, paymentHeader)

\* request(path) up to its first await: build the url and the headers, call fetch.
request(c, name, path) ==
  /\ pc[c] = "Initial"
  /\ op' = [op EXCEPT ![c] = name]
  /\ url' = [url EXCEPT ![c] = baseUrl \o API_PREFIX \o path]
  /\ fetchLog' = [fetchLog EXCEPT ![c] = Append(@, Fetch(url'[c], requestHeaders(config)))]
  /\ pc' = [pc EXCEPT ![c] = "Sent"]
  /\ UNCHANGED <<config, fetchErrors, challenge, baseUrl, clockMs, ticks, received, decodes, rng, locals,
                 signLog, result>>

getAgent(c, chainId, agentId) == request(c, "getAgent", getAgentPath(chainId, agentId))
getScore(c, chainId, agentId) == request(c, "getScore", getScorePath(chainId, agentId))
getSignals(c, chainId, agentId, options) ==
  request(c, "getSignals", getSignalsPath(chainId, agentId, options))
getEvents(c, chainId, agentId, options) ==
  request(c, "getEvents", getEventsPath(chainId, agentId, options))
search(c, options) == request(c, "search", searchPath(options))

\* The x402 branch taken on every 402, whatever the configuration.
takesPaymentBranchAnyConfig(cfg, response) == response.status = PAYMENT_REQUIRED_STATUS

\* The x402 branch taken on every response of a client that has an account.
takesPaymentBranchAnyStatus(cfg, response) == isX402Config(cfg)

\* Whether request() takes the x402 branch on this response.
takesPaymentBranch(cfg, response) ==
  response.status = PAYMENT_REQUIRED_STATUS /\ isX402Config(cfg)

\* The emptiness check left out.
acceptsEmptyNever(paymentRequired) == FALSE

\* !paymentRequired.accepts.length
acceptsEmpty(paymentRequired) == Len(paymentRequired.accepts) = 0

\* The last requirement of the list taken instead of the first.
firstRequirementLast(paymentRequired) ==
  IF Len(paymentRequired.accepts) > 0
  THEN paymentRequired.accepts[Len(paymentRequired.accepts)]
  ELSE UndefinedRequirement

\* paymentRequired.accepts[0]
firstRequirement(paymentRequired) ==
  IF Len(paymentRequired.accepts) > 0 THEN paymentRequired.accepts[1]
  ELSE UndefinedRequirement

\* request() from the first response to its next await or its end:
\* [pc, result, locals, decoded, paymentRequired]. bytes and nowMs are what
\* crypto.getRandomValues and Date.now() give if they are called.
requestOnResponse(cfg, response, bytes, nowMs) ==
  IF takesPaymentBranch(cfg, response)
  THEN LET paymentRequired == decodePaymentRequired(response)
           requirement == firstRequirement(paymentRequired.value)
           built == buildPaymentHeaderSign(cfg, requirement, paymentRequired.value.resource,
                                           bytes, nowMs)
       IN IF ~paymentRequired.ok
          THEN [pc |-> "Done", result |-> Threw(paymentRequired.error),
                locals |-> NoLocals, decoded |-> 1, paymentRequired |-> NoDoc]
          ELSE IF acceptsEmpty(paymentRequired.value)
          THEN [pc |-> "Done",
                result |-> Threw(PaymentRequiredError(
                                   Msg("No accepted payment methods", <<>>),
                                   BodyChallenge(paymentRequired.value))),
                locals |-> NoLocals, decoded |-> 1,
                paymentRequired |-> paymentRequired.value]
          ELSE IF ~built.ok
          THEN [pc |-> "Done", result |-> Threw(built.error),
                locals |-> built.locals, decoded |-> 1,
                paymentRequired |-> paymentRequired.value]
          ELSE [pc |-> "AwaitingPayment", result |-> NoResult,
                locals |-> built.locals, decoded |-> 1,
                paymentRequired |-> paymentRequired.value]
  ELSE [pc |-> "Done", result |-> handleResponse(response),
        locals |-> NoLocals, decoded |-> 0, paymentRequired |-> NoDoc]

\* request() resumed with a response: it runs on to the signTypedData call, or
\* to the end through handleResponse.
Continue(c, response, bytes) ==
  /\ LET next == requestOnResponse(config, response, bytes, clockMs)
     IN /\ pc' = [pc EXCEPT ![c] = next.pc]
        /\ result' = [result EXCEPT ![c] = next.result]
        /\ locals' = [locals EXCEPT ![c] = next.locals]
        /\ decodes' = [decodes EXCEPT ![c] = @ + next.decoded]
        /\ challenge' = [challenge EXCEPT ![c] = next.paymentRequired]
        /\ rng' = [rng EXCEPT ![c] = IF next.locals.drawn THEN Append(@, bytes) ELSE @]
        /\ signLog' = [signLog EXCEPT ![c] =
                         IF next.pc = "AwaitingPayment"
                         THEN Append(@, [args |-> next.locals.signArgs, atMs |-> clockMs,
                                         outcome |-> "pending", error |-> NoError,
                                         signature |-> ""])
                         ELSE @]
  /\ received' = [received EXCEPT ![c] = Append(@, response)]
  /\ UNCHANGED <<config, fetchErrors, baseUrl, clockMs, ticks, op, url, fetchLog>>

\* The first fetch resolves.
FirstResponse(c, response, bytes) == pc[c] = "Sent" /\ Continue(c, response, bytes)

\* The first fetch rejects and request() sends the request once more.
FirstFetchFailsRetried(c, error) ==
  /\ pc[c] = "Sent"
  /\ Len(fetchLog[c]) = 1
  /\ fetchErrors' = [fetchErrors EXCEPT ![c] = Append(@, error)]
  /\ fetchLog' = [fetchLog EXCEPT ![c] = Append(@, Fetch(url[c], fetchLog[c][1].headers))]
  /\ UNCHANGED <<config, challenge, baseUrl, clockMs, ticks, pc, op, url, received, decodes,
                 rng, locals, signLog, result>>

\* The first fetch rejects: the rejection is the call's.
FirstFetchFails(c, error) ==
  /\ pc[c] = "Sent"
  /\ pc' = [pc EXCEPT ![c] = "Done"]
  /\ result' = [result EXCEPT ![c] = Threw(error)]
  /\ fetchErrors' = [fetchErrors EXCEPT ![c] = Append(@, error)]
  /\ UNCHANGED <<config, challenge, baseUrl, clockMs, ticks, op, url, fetchLog, received, decodes,
                 rng, locals, signLog>>

\* signTypedData resolves in a builder that keeps its locals in one place for
\* all calls: the envelope is made from the locals of the call that entered
\* the builder last.
SignResolvesSharedLocals(c, signature) ==
  /\ pc[c] = "AwaitingPayment"
  /\ LET last == CHOOSE d \in Calls :
                   /\ pc[d] = "AwaitingPayment"
                   /\ \A e \in Calls : pc[e] = "AwaitingPayment" => e <= d
         encoded == buildPaymentHeaderEncode(config, locals[last], signature)
     IN IF encoded.ok
        THEN /\ fetchLog' = [fetchLog EXCEPT ![c] =
                               Append(@, Fetch(url[c], retryHeaders(fetchLog[c][1].headers, encoded.header)))]
             /\ pc' = [pc EXCEPT ![c] = "PaidRetry"]
             /\ UNCHANGED result
        ELSE /\ pc' = [pc EXCEPT ![c] = "Done"]
             /\ result' = [result EXCEPT ![c] =
                             Threw(ForeignError("InvalidCharacterError", "btoa"))]
             /\ UNCHANGED fetchLog
  /\ signLog' = [signLog EXCEPT ![c][Len(signLog[c])] =
                   [@ EXCEPT !.outcome = "resolved", !.signature = signature]]
  /\ UNCHANGED <<config, fetchErrors, challenge, baseUrl, clockMs, ticks, op, url, received, decodes, rng, locals>>

\* signTypedData resolves: buildPaymentHeader encodes the envelope and request()
\* sends the retry; btoa may throw instead.
SignResolves(c, signature) ==
  /\ pc[c] = "AwaitingPayment"
  /\ LET encoded == buildPaymentHeaderEncode(config, locals[c], signature)
     IN IF encoded.ok
        THEN /\ fetchLog' = [fetchLog EXCEPT ![c] =
                               Append(@, Fetch(url[c], retryHeaders(fetchLog[c][1].headers, encoded.header)))]
             /\ pc' = [pc EXCEPT ![c] = "PaidRetry"]
             /\ UNCHANGED result
        ELSE /\ pc' = [pc EXCEPT ![c] = "Done"]
             /\ result' = [result EXCEPT ![c] =
                             Threw(ForeignError("InvalidCharacterError", "btoa"))]
             /\ UNCHANGED fetchLog
  /\ signLog' = [signLog EXCEPT ![c][Len(signLog[c])] =
                   [@ EXCEPT !.outcome = "resolved", !.signature = signature]]
  /\ UNCHANGED <<config, fetchErrors, challenge, baseUrl, clockMs, ticks, op, url, received, decodes, rng, locals>>

\* signTypedData rejects and the rejection is caught and rethrown as a
\* payment error.
SignRejectsWrapped(c, error) ==
  /\ pc[c] = "AwaitingPayment"
  /\ pc' = [pc EXCEPT ![c] = "Done"]
  /\ result' = [result EXCEPT ![c] =
                  Threw(PaymentRequiredError(Msg("Payment signing failed", <<>>),
                                             BodyUndefined))]
  /\ signLog' = [signLog EXCEPT ![c][Len(signLog[c])] =
                   [@ EXCEPT !.outcome = "rejected", !.error = error]]
  /\ UNCHANGED <<config, fetchErrors, challenge, baseUrl, clockMs, ticks, op, url, fetchLog, received,
                 decodes, rng, locals>>

\* signTypedData rejects and request() starts over with a new initial request.
SignRejectsRestarts(c, error) ==
  /\ pc[c] = "AwaitingPayment"
  /\ pc' = [pc EXCEPT ![c] = "Sent"]
  /\ fetchLog' = [fetchLog EXCEPT ![c] = Append(@, Fetch(url[c], requestHeaders(config)))]
  /\ signLog' = [signLog EXCEPT ![c][Len(signLog[c])] =
                   [@ EXCEPT !.outcome = "rejected", !.error = error]]
  /\ UNCHANGED <<config, fetchErrors, challenge, baseUrl, clockMs, ticks, op, url, received,
                 decodes, rng, locals, result>>

\* signTypedData rejects: the rejection is the call's.
SignRejects(c, error) ==
  /\ pc[c] = "AwaitingPayment"
  /\ pc' = [pc EXCEPT ![c] = "Done"]
  /\ result' = [result EXCEPT ![c] = Threw(error)]
  /\ signLog' = [signLog EXCEPT ![c][Len(signLog[c])] =
                   [@ EXCEPT !.outcome = "rejected", !.error = error]]
  /\ UNCHANGED <<config, fetchErrors, challenge, baseUrl, clockMs, ticks, op, url, fetchLog, received, decodes,
                 rng, locals>>

\* The retry's response treated as the first one was: decoded, signed, retried.
RetryResponseAsFirst(c, response) ==
  pc[c] = "PaidRetry" /\ \E bytes \in RandomOutcomes : Continue(c, response, bytes)

\* The retry resolves: handleResponse ends the call.
RetryResponse(c, response) ==
  /\ pc[c] = "PaidRetry"
  /\ received' = [received EXCEPT ![c] = Append(@, response)]
  /\ pc' = [pc EXCEPT ![c] = "Done"]
  /\ result' = [result EXCEPT ![c] = handleResponse(response)]
  /\ UNCHANGED <<config, fetchErrors, challenge, baseUrl, clockMs, ticks, op, url, fetchLog, decodes, rng,
                 locals, signLog>>

\* The retry rejects.
RetryFetchFails(c, error) ==
  /\ pc[c] = "PaidRetry"
  /\ pc' = [pc EXCEPT ![c] = "Done"]
  /\ result' = [result EXCEPT ![c] = Threw(error)]
  /\ fetchErrors' = [fetchErrors EXCEPT ![c] = Append(@, error)]
  /\ UNCHANGED <<config, challenge, baseUrl, clockMs, ticks, op, url, fetchLog, received, decodes,
                 rng, locals, signLog>>

\* Time passes.
Tick(step) ==
  /\ ticks < MaxTicks
  /\ ticks' = ticks + 1
  /\ clockMs' = clockMs + step
  /\ UNCHANGED <<config, fetchErrors, challenge, baseUrl, pc, op, url, fetchLog, received, decodes, rng,
                 locals, signLog, result>>

\* One logical call, every input.
Next ==
  \/ \E chainId \in ChainIds, agentId \in AgentIds : getAgent(Main, chainId, agentId)
  \/ \E chainId \in ChainIds, agentId \in AgentIds : getScore(Main, chainId, agentId)
  \/ \E chainId \in ChainIds, agentId \in AgentIds, options \in SignalsOptionsSet :
       getSignals(Main, chainId, agentId, options)
  \/ \E chainId \in ChainIds, agentId \in AgentIds, options \in EventsOptionsSet :
       getEvents(Main, chainId, agentId, options)
  \/ \E options \in SearchOptionsSet : search(Main, options)
  \/ \E response \in FirstResponses, bytes \in RandomOutcomes :
       FirstResponse(Main, response, bytes)
  \/ \E error \in TransportErrors : FirstFetchFails(Main, error)
  \/ \E signature \in Signatures : SignResolves(Main, signature)
  \/ \E error \in SignerErrors : SignRejects(Main, error)
  \/ \E response \in RetryResponses : RetryResponse(Main, response)
  \/ \E error \in TransportErrors : RetryFetchFails(Main, error)
  \/ \E step \in TickStepsMs : Tick(step)

Spec == Init /\ [][Next]_vars

\* Several calls in flight on one client that has an account, on the inputs
\* that reach the payment path and on those that fail in it.
ConcConfigs == {Config(FALSE, TRUE, FALSE)}
ConcFirstResponses ==
  {Response(200, HeaderNull, BodyJsonOk),
   Response(402, Base64(JsonText(ChOne)), BodyJsonOk),
   Response(402, Base64(JsonText(ChTwo)), BodyJsonOk),
   Response(402, Base64(JsonText(ChSolana)), BodyJsonOk),
   Response(402, Base64(JsonText(ChEmpty)), BodyJsonOk),
   Response(402, HeaderNull, BodyJsonOk),
   Response(402, HeaderNotBase64, BodyJsonOk)}
ConcRetryResponses ==
  {Response(200, HeaderNull, BodyJsonOk), Response(402, HeaderNull, BodyJsonOk)}

InitConc == InitWith(ConcConfigs)

NextConc ==
  \/ \E c \in Calls, chainId \in ChainIds, agentId \in AgentIds : getScore(c, chainId, agentId)
  \/ \E c \in Calls, response \in ConcFirstResponses, bytes \in RandomOutcomes :
       FirstResponse(c, response, bytes)
  \/ \E c \in Calls, signature \in Signatures : SignResolves(c, signature)
  \/ \E c \in Calls, error \in SignerErrors : SignRejects(c, error)
  \/ \E c \in Calls, response \in ConcRetryResponses : RetryResponse(c, response)

SpecConc == InitConc /\ [][NextConc]_vars

\* One call on a client that has an account, on challenges that are well
\* formed and on challenges whose amount, network suffix or version is not
\* what the types promise; two signatures the signer may return.
PayChallengeDocs ==
  {ChOne, ChTwo, ChEmpty, ChSolana, ChBadAmount, ChHexAmount, ChEmptyAmount,
   ChSuffixAbc, ChSuffix1x, ChSuffixEmpty, ChVersionOne}
PayFirstResponses ==
  {Response(200, HeaderNull, BodyJsonOk), Response(404, HeaderNull, BodyJsonOk),
   Response(402, HeaderNull, BodyJsonOk)}
    \cup {Response(402, Base64(JsonText(d)), BodyJsonOk) : d \in PayChallengeDocs}
PaySignatures == {"0xsig", "0xsig2"}

InitPay == InitWith(ConcConfigs)

\* The transport settles the first request.
PayFirstSettles ==
  \/ \E response \in PayFirstResponses, bytes \in RandomOutcomes :
       FirstResponse(Main, response, bytes)
  \/ \E error \in TransportErrors : FirstFetchFails(Main, error)
\* The signer settles.
PaySignerSettles ==
  \/ \E signature \in PaySignatures : SignResolves(Main, signature)
  \/ \E error \in SignerErrors : SignRejects(Main, error)
\* The transport settles the retry.
PayRetrySettles ==
  \/ \E response \in ConcRetryResponses : RetryResponse(Main, response)
  \/ \E error \in TransportErrors : RetryFetchFails(Main, error)

NextPay ==
  \/ \E chainId \in ChainIds, agentId \in AgentIds : getScore(Main, chainId, agentId)
  \/ PayFirstSettles
  \/ PaySignerSettles
  \/ PayRetrySettles

SpecPay == InitPay /\ [][NextPay]_vars

\* The same, with a transport that answers or fails every request and a
\* signer that returns or raises in the end.
SpecPayLive ==
  /\ SpecPay
  /\ WF_vars(PayFirstSettles)
  /\ WF_vars(PaySignerSettles)
  /\ WF_vars(PayRetrySettles)

\* ------------------------------------------------------- claim vocabulary
\* What the server and the signer did, read off the logs without the client's
\* own decoding.
ChallengeHeaders == {Base64(JsonText(d)) : d \in ChallengeDocs \cup PayChallengeDocs}
FirstStatusIs402(c) == Len(received[c]) >= 1 /\ received[c][1].status = 402
\* The first response is a 402 that carries a well-formed base64 JSON challenge.
ChallengeOffered(c) ==
  FirstStatusIs402(c) /\ received[c][1].paymentRequired \in ChallengeHeaders
OfferedDoc(c) == received[c][1].paymentRequired.text.doc
AcceptsOffered(c) == ChallengeOffered(c) /\ Len(OfferedDoc(c).accepts) > 0
SupportedNetworks == {JStr(Chars_eip155_42220), JStr(Chars_eip155_8453)}
\* <namespace>:<chainId> with namespace eip155: exactly one colon, after "eip155".
IsEip155Form(s) ==
  /\ Len(s) >= 7
  /\ SubSeq(s, 1, 7) = <<"e", "i", "p", "1", "5", "5", ":">>
  /\ Cardinality({i \in 1..Len(s) : s[i] = ":"}) = 1
SignerInvoked(c) == Len(signLog[c]) >= 1
SignerResolved(c) == SignerInvoked(c) /\ signLog[c][1].outcome = "resolved"
HasAccount == config.account.has
HasApiKey == config.apiKey.has
ThrewKind(c, name, text) ==
  /\ pc[c] = "Done"
  /\ result[c].state = "threw"
  /\ result[c].error.name = name
  /\ result[c].error.message.text = text

\* C1: with a signing capability configured, a first response of status 402
\* that carries a decodable challenge with a non-empty accepts list on a
\* supported network, followed by a successful signature, leads to exactly 2
\* transport calls, the second carrying X-PAYMENT, and the caller's result is
\* what handleResponse yields for the second response.
C1_PaidRetryAfterSignedChallenge ==
  \A c \in Calls :
    (/\ HasAccount
     /\ AcceptsOffered(c)
     /\ OfferedDoc(c).accepts[1].network \in SupportedNetworks
     /\ SignerResolved(c))
    => /\ Len(fetchLog[c]) = 2
       /\ "X-PAYMENT" \in DOMAIN fetchLog[c][2].headers
       /\ (Len(received[c]) = 2 => result[c] = handleResponse(received[c][2]))

\* C2: a logical call makes at most 2 transport calls; the response to the
\* paid retry is terminal whatever its status; a retry answered with 402 is
\* not decoded, leads to no further signature, and ends the call with a
\* payment-required error.
C2_AtMostOneRetry ==
  \A c \in Calls :
    /\ Len(fetchLog[c]) <= 2
    /\ Len(received[c]) <= 2
    /\ decodes[c] <= 1
    /\ Len(signLog[c]) <= 1
    /\ Len(rng[c]) <= 1
    /\ (Len(received[c]) = 2 => pc[c] = "Done" /\ result[c].state # "pending")
    /\ (Len(received[c]) = 2 /\ received[c][2].status = 402
          => ThrewKind(c, "PaymentRequiredError", "Payment required"))

\* A retry was answered with a 402 that itself carries a challenge.
C2_Witness ==
  \E c \in Calls :
    /\ Len(received[c]) = 2
    /\ received[c][2].status = 402
    /\ received[c][2].paymentRequired \in ChallengeHeaders
    /\ pc[c] = "Done"

\* C3: without a signing capability, a first response of status 402 leads to
\* exactly one transport call, no decoding of the challenge, no retry, and a
\* PaymentRequiredError for the caller.
C3_No402RetryWithoutAccount ==
  \A c \in Calls :
    (~HasAccount /\ FirstStatusIs402(c))
    => /\ Len(fetchLog[c]) = 1
       /\ decodes[c] = 0
       /\ signLog[c] = <<>>
       /\ ThrewKind(c, "PaymentRequiredError", "Payment required")

\* An API-key client received a 402 that carries a usable challenge.
C3_Witness ==
  \E c \in Calls :
    /\ ~HasAccount
    /\ ChallengeOffered(c)
    /\ OfferedDoc(c) = ChOne
    /\ pc[c] = "Done"

\* C4: with a signing capability configured, a 402 whose decoded challenge has
\* an empty accepts list fails the call with "No accepted payment methods";
\* the signing capability is never invoked and no second transport call is made.
C4_EmptyAcceptsFails ==
  \A c \in Calls :
    (HasAccount /\ ChallengeOffered(c) /\ Len(OfferedDoc(c).accepts) = 0)
    => /\ ThrewKind(c, "PaymentRequiredError", "No accepted payment methods")
       /\ result[c].error.body.t = "challenge"
       /\ signLog[c] = <<>>
       /\ rng[c] = <<>>
       /\ Len(fetchLog[c]) = 1

C4_Witness ==
  \E c \in Calls :
    HasAccount /\ ChallengeOffered(c) /\ OfferedDoc(c) = ChEmpty /\ pc[c] = "Done"

\* C5: the Authorization header is on the initial request exactly when an API
\* key is configured, with the value "Bearer <key>"; the retry goes to the url
\* of the initial request and its header set is exactly {X-PAYMENT}.
C5_BearerOnInitialOnly ==
  \A c \in Calls :
    /\ Len(fetchLog[c]) >= 1
         => /\ ("Authorization" \in DOMAIN fetchLog[c][1].headers) <=> HasApiKey
            /\ DOMAIN fetchLog[c][1].headers \subseteq {"Authorization"}
            /\ HasApiKey => fetchLog[c][1].headers["Authorization"] = "Bearer ds_test123"
    /\ Len(fetchLog[c]) >= 2
         => /\ fetchLog[c][2].url = fetchLog[c][1].url
            /\ DOMAIN fetchLog[c][2].headers = {"X-PAYMENT"}

\* A client configured with both an API key and an account sent a paid retry.
C5_Witness ==
  \E c \in Calls : HasApiKey /\ HasAccount /\ Len(fetchLog[c]) = 2

\* The chain id each supported network string denotes.
ChainIdOf(network) ==
  IF network = JStr(Chars_eip155_42220) THEN 42220
  ELSE IF network = JStr(Chars_eip155_8453) THEN 8453
  ELSE -1

\* C6: every domain that reaches the signing capability is {name, version,
\* chainId, verifyingContract} of the requirement given to that invocation (the
\* first of the challenge this call received), whatever other calls received.
C6_DomainFromRequirement ==
  \A c \in Calls :
    SignerInvoked(c)
    => LET requirement == OfferedDoc(c).accepts[1]
       IN /\ AcceptsOffered(c)
          /\ signLog[c][1].args.domain =
               [name |-> requirement.extra.name,
                version |-> requirement.extra.version,
                chainId |-> Num(ChainIdOf(requirement.network)),
                verifyingContract |-> requirement.asset]

\* Two calls are in the signing capability at once with different domains.
C6_Witness ==
  \E c, d \in Calls :
    /\ pc[c] = "AwaitingPayment" /\ pc[d] = "AwaitingPayment"
    /\ OfferedDoc(c) = ChOne /\ OfferedDoc(d) = ChTwo
    /\ signLog[c][1].args.domain.chainId = Num(42220)
    /\ signLog[d][1].args.domain.chainId = Num(8453)

\* C7: a requirement whose network is not of the form eip155:<chainId> fails
\* the build with "Unsupported network format" naming the network, before a
\* nonce is drawn or the signing capability invoked; no retry request is sent.
C7_UnsupportedNetworkFails ==
  \A c \in Calls :
    (/\ HasAccount
     /\ AcceptsOffered(c)
     /\ ~IsEip155Form(OfferedDoc(c).accepts[1].network.s))
    => /\ ThrewKind(c, "PaymentRequiredError", "Unsupported network format: ")
       /\ result[c].error.message.arg = OfferedDoc(c).accepts[1].network.s
       /\ signLog[c] = <<>>
       /\ rng[c] = <<>>
       /\ Len(fetchLog[c]) = 1

C7_Witness ==
  \E c \in Calls :
    /\ HasAccount /\ ChallengeOffered(c) /\ OfferedDoc(c) = ChSolana
    /\ ThrewKind(c, "PaymentRequiredError", "Unsupported network format: ")

\* The nonce a call built, if it built one.
HasNonce(c) == locals[c].drawn
\* Value of the i-th two-digit group of a 0x-prefixed hex string.
HexPairValue(nonce, i) == DigitValue(nonce[2 * i + 1]) * 16 + DigitValue(nonce[2 * i + 2])

C9_ValidityWindow ==
  \A c \in Calls :
    SignerInvoked(c)
    => LET message == signLog[c][1].args.message
           builtMs == signLog[c][1].atMs
       IN /\ message.validAfter = 0
          /\ message.validBefore = (builtMs \div 1000) + 3600
          /\ message.validBefore * 1000 > builtMs
          /\ message.validBefore * 1000 <= builtMs + 3601 * 1000
          /\ Len(fetchLog[c]) = 2
               => LET authorization ==
                        fetchLog[c][2].headers["X-PAYMENT"].text.doc.payload.authorization
                  IN /\ authorization.validAfter.s = <<"0">>
                     /\ DigitsValue(authorization.validBefore.s, 10) = message.validBefore

\* An authorization was built half a second into a second and sent.
C9_Witness ==
  \E c \in Calls :
    /\ SignerInvoked(c)
    /\ signLog[c][1].atMs % 1000 = 500
    /\ Len(fetchLog[c]) = 2

\* C10: when the paid retry is sent, validBefore is still strictly after the
\* current time, however long the signing capability took.
C10_RetrySentBeforeExpiry ==
  \A c \in Calls :
    Len(fetchLog[c]) = 2 => locals[c].validBefore * 1000 > fetchLog[c][2].atMs

\* The authorization inside the X-PAYMENT envelope of the paid retry.
SentAuthorization(c) == fetchLog[c][2].headers["X-PAYMENT"].text.doc.payload.authorization
\* s is the decimal numeral of n: digits only, no leading zero.
IsDecimalOf(s, n) ==
  /\ Len(s) >= 1
  /\ \A i \in 1..Len(s) : IsDigit(s[i])
  /\ Len(s) > 1 => s[1] # "0"
  /\ DigitsValue(s, 10) = n

\* C11: in the emitted envelope value, validAfter and validBefore are strings:
\* value is the amount string of the requirement, validAfter is "0", and
\* validBefore is the decimal numeral of the validBefore integer that was
\* signed; in the signed message the same three fields are integers.
C11_WireFieldsAreStrings ==
  \A c \in Calls :
    Len(fetchLog[c]) = 2
    => LET authorization == SentAuthorization(c)
           message == signLog[c][1].args.message
           amount == OfferedDoc(c).accepts[1].amount
       IN /\ authorization.value.t = "string"
          /\ authorization.value = amount
          /\ authorization.validAfter = JStr(<<"0">>)
          /\ authorization.validBefore.t = "string"
          /\ IsDecimalOf(authorization.validBefore.s, message.validBefore)
          /\ message.value \in Nat
          /\ message.validAfter = 0
          /\ message.validBefore \in Nat

\* A retry was sent whose validBefore has more digits than the window: the
\* clock had advanced by an hour before the authorization was built.
C11_Witness ==
  \E c \in Calls :
    /\ Len(fetchLog[c]) = 2
    /\ signLog[c][1].args.message.validBefore = 7200
    /\ SentAuthorization(c).validBefore.s = <<"7", "2", "0", "0">>
    /\ SentAuthorization(c).value.s = <<"1", "0", "0", "0">>

\* The envelope read with atob and JSON.parse, as this code base's tests do.
DecodedEnvelope(c) == JSONparse(atob(fetchLog[c][2].headers["X-PAYMENT"]).text).value

RECURSIVE Utf8Decode(_)
\* The characters a UTF-8 decoder reads from bytes; a byte that starts no
\* well-formed sequence becomes U+FFFD.
Utf8Decode(b) ==
  IF b = <<>> THEN <<>>
  ELSE IF b[1] < 128 THEN <<b[1]>> \o Utf8Decode(Tail(b))
  ELSE IF b[1] >= 192 /\ b[1] < 224 /\ Len(b) >= 2 /\ b[2] \in 128..191
  THEN <<(b[1] - 192) * 64 + (b[2] - 128)>> \o Utf8Decode(SubSeq(b, 3, Len(b)))
  ELSE IF b[1] >= 224 /\ b[1] < 240 /\ Len(b) >= 3 /\ b[2] \in 128..191 /\ b[3] \in 128..191
  THEN <<(b[1] - 224) * 4096 + (b[2] - 128) * 64 + (b[3] - 128)>>
         \o Utf8Decode(SubSeq(b, 4, Len(b)))
  ELSE <<65533>> \o Utf8Decode(Tail(b))

\* The envelope as the receiver of the retry reads it: the header is base64 of
\* a UTF-8 JSON text; btoa made one byte of each character of the text.
ReceivedEnvelope(c) ==
  LET doc == fetchLog[c][2].headers["X-PAYMENT"].text.doc
  IN [doc EXCEPT !.resource.description = Utf8Decode(ParseUnits(@))]

\* C12: decoding the header the builder returned yields a resource equal to
\* the resource it was given and an accepted equal to the requirement it was
\* given (the decoded challenge's resource and first requirement), field for
\* field, none altered, added or dropped.
C12_EnvelopeRoundTrip ==
  \A c \in Calls :
    Len(fetchLog[c]) = 2
    => /\ ReceivedEnvelope(c).resource = challenge[c].resource
       /\ ReceivedEnvelope(c).accepted = challenge[c].accepts[1]

\* C13: when the challenge lists several requirements the build is made from
\* the first, whatever the others are: the signing domain and the authorization
\* are those of the first requirement, the accepted field of the retry is the
\* first requirement, and a first requirement that cannot be built from fails
\* the call without a later one being tried.
C13_FirstRequirementWins ==
  \A c \in Calls :
    (HasAccount /\ ChallengeOffered(c) /\ Len(OfferedDoc(c).accepts) >= 2)
    => LET first == OfferedDoc(c).accepts[1]
       IN /\ pc[c] = "Done" /\ ~IsEip155Form(first.network.s)
               => /\ signLog[c] = <<>>
                  /\ result[c].state = "threw"
                  /\ result[c].error.message.arg = first.network.s
          /\ SignerInvoked(c)
               => /\ Len(signLog[c]) = 1
                  /\ signLog[c][1].args.domain.verifyingContract = first.asset
                  /\ signLog[c][1].args.domain.name = first.extra.name
                  /\ signLog[c][1].args.domain.version = first.extra.version
                  /\ signLog[c][1].args.domain.chainId = Num(ChainIdOf(first.network))
                  /\ signLog[c][1].args.message.to = first.payTo
                  /\ IsDecimalOf(first.amount.s, signLog[c][1].args.message.value)
          /\ Len(fetchLog[c]) = 2
               => /\ DecodedEnvelope(c).accepted = first
                  /\ SentAuthorization(c).to = first.payTo
                  /\ SentAuthorization(c).value = first.amount

\* A retry was sent for a challenge whose first requirement is on Base and
\* whose second is on Celo.
C13_Witness ==
  \E c \in Calls :
    /\ Len(fetchLog[c]) = 2
    /\ OfferedDoc(c) = ChTwo
    /\ DecodedEnvelope(c).accepted = ReqBase
    /\ signLog[c][1].args.domain.chainId = Num(8453)

\* JSON(c) as a UTF-8 text, strings written raw: what base64 then carries.
ServerJsonUtf8(value) == [value EXCEPT !.resource.description = Utf8Units(@)]
\* PaymentChallenge values: one requirement, none, two; a description in ASCII
\* and one with a character outside ASCII.
ChallengeValues ==
  {ChallengeDoc(<<ReqCelo>>, DescOk), ChallengeDoc(<<>>, DescOk),
   ChallengeDoc(<<ReqBase, ReqCelo>>, DescOk), ChallengeDoc(<<ReqCelo>>, DescEAcute)}

\* C14: for every PaymentChallenge value, decoding the header that is the
\* base64 of its UTF-8 JSON text succeeds and gives a structure equal to the
\* value (same version, accepts and resource), an empty accepts list included.
C14_DecodeRoundTrip ==
  \A c \in Calls : \A value \in ChallengeValues :
    (/\ HasAccount
     /\ FirstStatusIs402(c)
     /\ received[c][1].paymentRequired = Base64(JsonText(ServerJsonUtf8(value))))
    => /\ decodes[c] = 1
       /\ challenge[c] = value

\* The payment-required header of the first response.
FirstHeader(c) == received[c][1].paymentRequired
MissingChallenge(c) ==
  ThrewKind(c, "PaymentRequiredError", "402 response missing PAYMENT-REQUIRED header")
MalformedChallenge(c) ==
  ThrewKind(c, "PaymentRequiredError", "Failed to decode PAYMENT-REQUIRED header")

\* C15: decoding fails with the missing-header error exactly when the header
\* is absent, and with the decode-failure error for every header value that is
\* present but not valid base64 or not valid JSON, the empty string included.
C15_MissingOrMalformed ==
  \A c \in Calls :
    (HasAccount /\ FirstStatusIs402(c))
    => /\ MissingChallenge(c) <=> ~FirstHeader(c).present
       /\ (FirstHeader(c).present /\ (~FirstHeader(c).base64 \/ ~FirstHeader(c).text.json))
            => MalformedChallenge(c)

\* The signing capability raised an error in this call.
SignerRejected(c) == SignerInvoked(c) /\ signLog[c][1].outcome = "rejected"

\* C16: when the signing capability raises an error the call fails with that
\* very error, not wrapped and not altered, and no retry request is sent.
C16_SignerErrorPropagates ==
  \A c \in Calls :
    SignerRejected(c)
    => /\ pc[c] = "Done"
       /\ result[c] = Threw(signLog[c][1].error)
       /\ result[c].error \in SignerErrors
       /\ Len(fetchLog[c]) = 1
       /\ Len(received[c]) = 1

\* The signer failed with a device error, which is what the caller got.
C16_Witness ==
  \E c \in Calls :
    /\ SignerRejected(c)
    /\ signLog[c][1].error.name = "TransportError"
    /\ result[c].error.name = "TransportError"

\* The call ended in handleResponse, and the response it was given.
HandledResponse(c) ==
  /\ pc[c] = "Done"
  /\ \/ Len(received[c]) = 2
     \/ /\ Len(received[c]) = 1 /\ Len(fetchLog[c]) = 1
        /\ ~(received[c][1].status = 402 /\ HasAccount)
TerminalResponse(c) == received[c][Len(received[c])]
\* The body the server returned: JSON if parseable, else raw text, else absent.
ReturnedBody(response) ==
  IF response.body.json THEN BodyJson(response.body.v)
  ELSE IF response.body.raw # "" THEN BodyText(response.body.raw)
  ELSE BodyUndefined
ErrorKindFor(status) ==
  IF status \in {401, 403} THEN "AuthenticationError"
  ELSE IF status = 402 THEN "PaymentRequiredError"
  ELSE "DenScopeError"

\* C17: the terminal response is classified by its status alone: a 2xx gives
\* the JSON body as the result; 401 and 403 raise AuthenticationError, 402
\* PaymentRequiredError, any other status DenScopeError; the error carries the
\* status and the body the server returned (JSON if parseable, else the raw
\* text, else nothing).
C17_HandleResponseClassifies ==
  \A c \in Calls :
    HandledResponse(c)
    => LET response == TerminalResponse(c)
       IN IF response.status \in 200..299
          THEN response.body.json => result[c] = Returned(BodyJson(response.body.v))
          ELSE /\ result[c].state = "threw"
               /\ result[c].error.name = ErrorKindFor(response.status)
               /\ result[c].error.status = response.status
               /\ result[c].error.body = ReturnedBody(response)

\* C18: no single call both sends a bearer Authorization header on its initial
\* request and performs a signed payment retry, whatever configuration the
\* constructor was given.
C18_ModesMutuallyExclusive ==
  \A c \in Calls :
    ~(/\ Len(fetchLog[c]) = 2
      /\ "Authorization" \in DOMAIN fetchLog[c][1].headers
      /\ SignerResolved(c)
      /\ "X-PAYMENT" \in DOMAIN fetchLog[c][2].headers)

\* Which failure of the payment path the inputs of a call amount to.
FailureOf(c) ==
  IF ~(HasAccount /\ FirstStatusIs402(c)) THEN "none"
  ELSE IF ~FirstHeader(c).present THEN "MissingChallenge"
  ELSE IF ~FirstHeader(c).empty /\ (~FirstHeader(c).base64 \/ ~FirstHeader(c).text.json)
  THEN "MalformedChallenge"
  ELSE IF ChallengeOffered(c) /\ Len(OfferedDoc(c).accepts) = 0 THEN "NoAcceptedPaymentMethod"
  ELSE IF AcceptsOffered(c) /\ ~IsEip155Form(OfferedDoc(c).accepts[1].network.s)
  THEN "UnsupportedNetwork"
  ELSE IF Len(received[c]) = 2 /\ received[c][2].status = 402 THEN "PassedThrough402"
  ELSE "none"
\* What an error offers besides its message text: its kind and what it carries.
ErrorContext(error) == [name |-> error.name, status |-> error.status, body |-> error.body]

\* C19: two calls that failed in different ones of MissingChallenge,
\* MalformedChallenge, UnsupportedNetwork, NoAcceptedPaymentMethod and the
\* passed-through 402 hold errors that differ in kind or structured context,
\* the message text left aside.
C19_FailuresDistinctByKind ==
  \A c, d \in Calls :
    (/\ pc[c] = "Done" /\ pc[d] = "Done"
     /\ FailureOf(c) # "none" /\ FailureOf(d) # "none"
     /\ FailureOf(c) # FailureOf(d))
    => /\ result[c].state = "threw" /\ result[d].state = "threw"
       /\ ErrorContext(result[c].error) # ErrorContext(result[d].error)

\* Everything a call holds of its own.
PerCall(c) ==
  <<pc[c], op[c], url[c], fetchLog[c], received[c], fetchErrors[c], decodes[c],
    challenge[c], rng[c], locals[c], signLog[c], result[c]>>
\* Some step of call c: a method is entered, a response or the signer's
\* answer arrives.
StepOf(c) ==
  \/ \E chainId \in ChainIds, agentId \in AgentIds : getScore(c, chainId, agentId)
  \/ \E response \in ConcFirstResponses, bytes \in RandomOutcomes :
       FirstResponse(c, response, bytes)
  \/ \E signature \in Signatures : SignResolves(c, signature)
  \/ \E error \in SignerErrors : SignRejects(c, error)
  \/ \E response \in ConcRetryResponses : RetryResponse(c, response)
\* While a call is suspended in the signer every other unfinished call has a
\* step it can take.
NoCallBlocked ==
  \A c, d \in Calls :
    (c # d /\ pc[c] = "AwaitingPayment" /\ pc[d] # "Done") => ENABLED StepOf(d)
\* What a call derived comes from what that call received and drew.
OwnDerivedState ==
  \A c \in Calls :
    /\ \A i \in 1..Len(fetchLog[c]) : fetchLog[c][i].url = url[c]
    /\ decodes[c] = 1 /\ challenge[c] # NoDoc
         => challenge[c].accepts = OfferedDoc(c).accepts
    /\ SignerInvoked(c)
         => /\ signLog[c][1].args.domain.verifyingContract = OfferedDoc(c).accepts[1].asset
            /\ signLog[c][1].args.domain.chainId
                 = Num(ChainIdOf(OfferedDoc(c).accepts[1].network))
            /\ signLog[c][1].args.message.nonce = locals[c].nonce
            /\ \A i \in 1..NONCE_BYTES : HexPairValue(locals[c].nonce, i) = rng[c][1][i]
    /\ Len(fetchLog[c]) = 2
         => /\ SentAuthorization(c).nonce = signLog[c][1].args.message.nonce
            /\ DecodedEnvelope(c).accepted = OfferedDoc(c).accepts[1]
            /\ DOMAIN fetchLog[c][2].headers = {"X-PAYMENT"}
\* A step changes the per-call state of one call at most, and never the
\* configuration.
OneCallPerStep ==
  /\ config' = config /\ baseUrl' = baseUrl
  /\ \E c \in Calls : \A d \in Calls \ {c} : PerCall(d)' = PerCall(d)

\* C20: concurrent calls on one client are independent: while a call is
\* suspended in the signing capability no other call is blocked; every step
\* writes the state of one call only; and the nonce, domain, headers and
\* challenge of a call come from its own inputs, in every interleaving.
C20_CallsIndependent ==
  /\ [](NoCallBlocked /\ OwnDerivedState)
  /\ [][OneCallPerStep]_vars

\* While one call is still suspended in the signer, another that started
\* after it on a different challenge has signed, retried and returned.
C20_Witness ==
  \E c, d \in Calls :
    /\ pc[c] = "AwaitingPayment" /\ signLog[c][1].outcome = "pending"
    /\ OfferedDoc(c) = ChOne /\ rng[c][1] = BytesZero
    /\ pc[d] = "Done" /\ Len(fetchLog[d]) = 2 /\ result[d].state = "returned"
    /\ OfferedDoc(d) = ChTwo /\ rng[d][1] = BytesRamp

\* C21: when fetch rejects, on the initial request or on the paid retry, the
\* call fails with that rejection and calls fetch no more; a second fetch is
\* made only as the one payment retry, after a 402 and a signature.
C21_TransportFailureSurfaces ==
  \A c \in Calls :
    /\ Len(fetchErrors[c]) <= 1
    /\ Len(fetchLog[c]) <= 2
    /\ Len(fetchErrors[c]) = 1
         => /\ pc[c] = "Done"
            /\ result[c] = Threw(fetchErrors[c][1])
            /\ Len(fetchLog[c]) = Len(received[c]) + 1
    /\ Len(fetchLog[c]) = 2
         => /\ FirstStatusIs402(c)
            /\ SignerResolved(c)
            /\ DOMAIN fetchLog[c][2].headers = {"X-PAYMENT"}

\* The paid retry was rejected by the transport and the call ended with it.
C21_Witness ==
  \E c \in Calls :
    /\ Len(fetchLog[c]) = 2 /\ Len(received[c]) = 1
    /\ fetchErrors[c] = <<ForeignError("TypeError", "fetch failed")>>
    /\ result[c].state = "threw" /\ result[c].error.name = "TypeError"

\* C22: the signing capability is invoked at most once in a call, and only
\* when the first response had status 402, its challenge was decoded, the
\* accepts list was not empty and the network of the first requirement was
\* accepted; the retry is sent only once that invocation has returned a
\* signature, and its header holds that signature. With an account configured
\* a first response of another status is not decoded, signed for or retried.
C22_SignOnceAfterChallenge ==
  \A c \in Calls :
    /\ Len(signLog[c]) <= 1
    /\ SignerInvoked(c)
         => /\ FirstStatusIs402(c)
            /\ decodes[c] = 1
            /\ AcceptsOffered(c)
            /\ challenge[c].accepts = OfferedDoc(c).accepts
            /\ IsEip155Form(OfferedDoc(c).accepts[1].network.s)
    /\ Len(fetchLog[c]) = 2
         => /\ SignerResolved(c)
            /\ signLog[c][1].signature \in PaySignatures
            /\ DecodedEnvelope(c).payload.signature = signLog[c][1].signature
    /\ (HasAccount /\ Len(received[c]) >= 1 /\ received[c][1].status # 402)
         => /\ decodes[c] = 0
            /\ signLog[c] = <<>>
            /\ Len(fetchLog[c]) = 1
            /\ pc[c] = "Done"

\* The signer returned the second of its signatures and the retry carries it.
C22_Witness ==
  \E c \in Calls :
    /\ Len(fetchLog[c]) = 2
    /\ signLog[c][1].signature = "0xsig2"
    /\ DecodedEnvelope(c).payload.signature = "0xsig2"
    /\ Len(signLog[c]) = 1

\* C23: in every envelope that is sent the authorization is the assertion that
\* was signed: from, to and nonce are those of the message given to the signer,
\* and value, validAfter and validBefore are the decimal numerals of the
\* message's integers, for every amount string the builder accepts.
C23_EnvelopeIsWhatWasSigned ==
  \A c \in Calls :
    Len(fetchLog[c]) = 2
    => LET authorization == SentAuthorization(c)
           message == signLog[c][1].args.message
       IN /\ authorization.from = message.from
          /\ authorization.to = message.to
          /\ authorization.nonce = message.nonce
          /\ IsDecimalOf(authorization.validAfter.s, message.validAfter)
          /\ IsDecimalOf(authorization.validBefore.s, message.validBefore)
          /\ IsDecimalOf(authorization.value.s, message.value)

\* The failures of the payment path that have a name.
IsProtocolFailure(error) ==
  /\ error.name = "PaymentRequiredError"
  /\ error.message.text \in
       {"402 response missing PAYMENT-REQUIRED header",
        "Failed to decode PAYMENT-REQUIRED header",
        "No accepted payment methods",
        "Unsupported network format: "}

\* C24: with an account configured, a call that received a 402 and failed
\* before a retry was sent failed with the missing-header, decode-failure,
\* no-accepted-methods or unsupported-network error, or with the error the
\* signer raised, whatever the decoded challenge holds.
C24_FailuresBeforeRetryAreTyped ==
  \A c \in Calls :
    (/\ HasAccount
     /\ FirstStatusIs402(c)
     /\ pc[c] = "Done"
     /\ Len(fetchLog[c]) = 1)
    => /\ result[c].state = "threw"
       /\ \/ IsProtocolFailure(result[c].error)
          \/ SignerRejected(c) /\ result[c].error = signLog[c][1].error

\* The part of a network string after "eip155:".
Eip155Suffix(s) == SubSeq(s, 8, Len(s))

\* C25: whenever the build does not fail on the network, the chainId of the
\* signing domain is the integer that the whole suffix after "eip155:" denotes;
\* a suffix that is empty or not a decimal numeral leads to no invocation of
\* the signing capability.
C25_ChainIdIsWholeSuffix ==
  \A c \in Calls :
    (AcceptsOffered(c) /\ IsEip155Form(OfferedDoc(c).accepts[1].network.s))
    => LET suffix == Eip155Suffix(OfferedDoc(c).accepts[1].network.s)
           numeral == Len(suffix) >= 1 /\ \A i \in 1..Len(suffix) : IsDigit(suffix[i])
       IN /\ ~numeral => signLog[c] = <<>>
          /\ (numeral /\ SignerInvoked(c))
               => /\ ~signLog[c][1].args.domain.chainId.nan
                  /\ signLog[c][1].args.domain.chainId.v = DigitsValue(suffix, 10)

\* C26: the x402Version of every envelope that is sent is 2, whatever the
\* x402Version of the challenge that led to it.
C26_EnvelopeVersionIsTwo ==
  \A c \in Calls :
    Len(fetchLog[c]) = 2
    => /\ DecodedEnvelope(c).x402Version = 2
       /\ fetchLog[c][2].headers["X-PAYMENT"].text.doc.x402Version = 2

\* A challenge of version 1 was answered with a retry.
C26_Witness ==
  \E c \in Calls :
    /\ Len(fetchLog[c]) = 2
    /\ OfferedDoc(c).x402Version = 1
    /\ challenge[c].x402Version = 1
    /\ DecodedEnvelope(c).x402Version = 2

\* The transitions of a logical call.
CallTransitions ==
  {<<"Initial", "Sent">>, <<"Sent", "Done">>, <<"Sent", "AwaitingPayment">>,
   <<"AwaitingPayment", "PaidRetry">>, <<"PaidRetry", "Done">>}
\* Transitions the code has besides: the signer raises, or btoa throws once
\* the signature is there, and the call ends without a retry.
FailedBuildTransitions == {<<"AwaitingPayment", "Done">>}
CallStepsAlong(transitions) ==
  \A c \in Calls : pc'[c] = pc[c] \/ <<pc[c], pc'[c]>> \in transitions
Settled(c) == pc[c] = "Done" /\ result[c].state \in {"returned", "threw"}

\* C27 as claimed: every call follows Initial -> Sent -> {Done |
\* AwaitingPayment -> PaidRetry -> Done} and takes no other transition.
C27_OnlyListedTransitions == [][CallStepsAlong(CallTransitions)]_vars

\* C27 as amended: every call follows Initial -> Sent -> {Done |
\* AwaitingPayment -> {Done | PaidRetry -> Done}}, with no other transition and
\* no way out of Done; an unfinished call holds no result; and when the
\* transport settles every request and the signer returns or raises, every
\* call that was sent reaches Done with a returned body or a raised error.
C27_CallReachesDone ==
  /\ [][CallStepsAlong(CallTransitions \cup FailedBuildTransitions)]_vars
  /\ [](\A c \in Calls : pc[c] # "Done" => result[c] = NoResult)
  /\ \A c \in Calls : (pc[c] = "Sent") ~> Settled(c)

\* A call went the whole way and returned the body of the paid retry.
C27_Witness ==
  \E c \in Calls :
    /\ Settled(c) /\ result[c].state = "returned"
    /\ Len(fetchLog[c]) = 2 /\ Len(received[c]) = 2
    /\ SignerResolved(c)

====
